---------------------------- MODULE Spec2Model ----------------------------
(***************************************************************************)
(* waterbutler.core.provider: the throttle decorator, BaseProvider's       *)
(* make_request, the generic move/copy with the recursive folder           *)
(* operation, and handle_name_conflict.                                    *)
(*                                                                         *)
(* asyncio is cooperative: the code between two suspension points (an      *)
(* await that really suspends) runs atomically, so each action below is    *)
(* one such stretch of one coroutine.                                      *)
(***************************************************************************)
EXTENDS Integers, Sequences, FiniteSets, Bags, TLC

(***************************************************************************)
(* Bounds of the model.                                                    *)
(***************************************************************************)
NCallers == 2          \* concurrent make_request calls on the one event loop
MaxConcurrency == 1    \* throttle(concurrency=...) is drawn from 0..MaxConcurrency
MaxInterval == 2       \* throttle(interval=...) is drawn from 1..MaxInterval
MaxTime == 2           \* time.time() runs over 0..MaxTime
MaxRetry == 2          \* make_request(retry=...) is drawn from 0..MaxRetry
MaxSuffix == 2         \* names "a", "a (1)", .. "a (MaxSuffix)" may exist
OP_CONCURRENCY == 2    \* settings.OP_CONCURRENCY, the batch size (configurable)

Callers == 1..NCallers
Times == 0..MaxTime

(***************************************************************************)
(* Values.                                                                 *)
(***************************************************************************)
NoEntry == [present |-> FALSE, count |-> 0, last_call |-> 0]
                                     \* the loop is not a key of _THROTTLES
Statuses == {200, 404, 503}          \* statuses the target answers with
ExpectsChoices == {{}, {200}, {200, 503}}   \* {} is expects=None
retry_on == {408, 502, 503, 504}     \* BaseProvider.__init__'s default

VARIABLES
    \* ---- throttle and make_request
    now,          \* time.time()
    concurrency,  \* the decorator's arguments
    interval,
    throttles,    \* _THROTTLES[loop]: NoEntry or the tuple (count, last_call)
    eventSet,     \* the asyncio.Event of that tuple: TRUE when set
    pc,           \* where each call is
    count,        \* wrapped()'s locals
    last_call,
    wake,         \* when the throttle's asyncio.sleep ends
    expects,      \* make_request's keyword arguments
    retry0,       \* _retry
    retry,        \* make_request's locals
    attempts,     \* aiohttp.request calls made by each call
    slept,        \* the arguments of make_request's asyncio.sleep calls, in order
    swallowed,    \* the codes of the errors caught and retried, in order
    outcome,      \* {the status returned}, {the code raised}, or {} for a
                  \* return of None and for an error that carries no code
    passes,       \* times each call went through wrapped()'s gate
    started,      \* started[t]: wrapped calls (func) started at time t
    waited,       \* the calls whose event.wait() found the event cleared
    \* ---- handle_name_conflict
    metadata,     \* what self.metadata answers for the name with each suffix
    conflict,     \* the conflict argument
    path,         \* the path argument (increment_name changes it in place)
    hncPc,        \* where the call is
    exists,       \* the local exists
    tried,        \* the names of the test_path candidates, in order
    hncResult,    \* what the call returned or raised
    \* ---- move, copy and _folder_file_op
    tree,         \* the source tree: is_dir and the listing (items) of each node
    func,         \* the top-level call: "move" or "copy"
    src,          \* the nodes the source backend holds
    dest,         \* the destination backend: path -> node
    tpc,          \* where the move/copy call made for each source node is
    dest_path,    \* its dest_path argument
    stream_name,  \* the name of its download stream ("" when it has none)
    created,      \* its created flag
    futures,      \* _folder_file_op's locals: futures (the children they run)
    batch,        \*   i, the start of the batch
    position,     \*   how many items were taken so far
    children,     \*   folder.children (the children whose metadata it holds)
    err,          \* the error a call raised: the node and step it came from
    src_deletes,  \* the nodes move's self.delete(src_path) was called for
    rename,       \* the rename argument ("" is None)
    dest_is_file, \* dest_path.is_file of the top-level dest_path argument
    shared,       \* dest_provider is the source backend and dest_path is
                  \* src_path: one storage behind src and dest
    can_intra,    \* the source nodes self.can_intra_move / can_intra_copy
                  \* (dest_provider, src_path) is true for
    dest_can_intra,  \* dest_provider.can_intra_move / can_intra_copy(self, ..)
    delete_result,   \* how dest_provider.delete(dest_path) ended in each
                     \* _folder_file_op
    items,        \* _folder_file_op's local items
    intra_calls,  \* the nodes intra_move / intra_copy was called for
    exports       \* the name the download stream of each node carries when
                  \* it carries one

reqVars == <<now, concurrency, interval, throttles, eventSet, pc, count,
             last_call, wake, expects, retry0, retry, attempts, slept,
             swallowed, outcome, passes, started, waited>>

hncVars == <<metadata, conflict, path, hncPc, exists, tried, hncResult>>

\* the arguments of the top-level call and the backends' fixed answers
trArgs == <<tree, func, rename, dest_is_file, shared, can_intra,
            dest_can_intra, exports>>

trVars == <<trArgs, src, dest, tpc, dest_path, stream_name, created,
            futures, batch, position, children, err, src_deletes,
            delete_result, items, intra_calls>>

vars == <<reqVars, hncVars, trVars>>

\* what the actions of one part leave alone
notReqVars == <<hncVars, trVars>>
notHncVars == <<reqVars, trVars>>
notTrVars == <<reqVars, hncVars>>

(***************************************************************************)
(* make_request (the function the throttle wraps)                          *)
(***************************************************************************)

\* line 175: the argument of asyncio.sleep before a retry
\* (faulty variant: the same delay before every retry)
BackoffFlat(r0, r) == 2
Backoff(r0, r) == (1 + r0 - r) * 2

\* line 173: the error is re-raised
\* (faulty variant: one retry too many)
ReraisesExhaustedLate(r, code) == r < 0 \/ code \notin retry_on
Reraises(r, code) == r <= 0 \/ code \notin retry_on

\* line 169: the response is turned into an error
Unexpected(exp, status) == exp # {} /\ status \notin exp

\* lines 156-168, first iteration: the body runs up to its first
\* await aiohttp.request(...)
StartRequest(c) ==
    /\ retry' = [retry EXCEPT ![c] = retry0[c]]
    /\ attempts' = [attempts EXCEPT ![c] = IF retry0[c] >= 0 THEN 1 ELSE 0]
    /\ started' = [started EXCEPT ![now] = @ + 1]
    /\ UNCHANGED <<slept, swallowed, outcome, expects, retry0>>

\* lines 176, 166-168: retry -= 1, the loop test, the next aiohttp.request.
\* The retry does not leave make_request: wrapped() is not entered again.
\* (variant: every attempt counted as a pass through the limiter)
NextAttemptThrottled(c) ==
    /\ pc[c] = "backoff"
    /\ UNCHANGED notReqVars
    /\ retry' = [retry EXCEPT ![c] = @ - 1]
    /\ IF retry[c] - 1 >= 0
         THEN /\ attempts' = [attempts EXCEPT ![c] = @ + 1]
              /\ passes' = [passes EXCEPT ![c] = @ + 1]
              /\ pc' = [pc EXCEPT ![c] = "request"]
              /\ UNCHANGED outcome
         ELSE /\ pc' = [pc EXCEPT ![c] = "returned"]
              /\ outcome' = [outcome EXCEPT ![c] = {}]
              /\ UNCHANGED <<attempts, passes>>
    /\ UNCHANGED <<now, concurrency, interval, throttles, eventSet, count,
                   last_call, wake, expects, retry0, slept, swallowed, started,
                   waited>>
NextAttempt(c) ==
    /\ pc[c] = "backoff"
    /\ UNCHANGED notReqVars
    /\ retry' = [retry EXCEPT ![c] = @ - 1]
    /\ IF retry[c] - 1 >= 0
         THEN /\ attempts' = [attempts EXCEPT ![c] = @ + 1]
              /\ pc' = [pc EXCEPT ![c] = "request"]
              /\ UNCHANGED outcome
         ELSE \* the while loop ends and make_request returns None
              /\ pc' = [pc EXCEPT ![c] = "returned"]
              /\ outcome' = [outcome EXCEPT ![c] = {}]
              /\ UNCHANGED attempts
    /\ UNCHANGED <<now, concurrency, interval, throttles, eventSet, count,
                   last_call, wake, expects, retry0, slept, swallowed, started,
                   passes, waited>>

\* lines 168-175: the target answers with a status
Respond(c) ==
    /\ pc[c] = "request"
    /\ UNCHANGED notReqVars
    /\ \E status \in Statuses :
         IF Unexpected(expects[c], status)
           THEN \* line 170 raises throws(code=status); line 172 catches it
                IF Reraises(retry[c], status)
                  THEN /\ pc' = [pc EXCEPT ![c] = "raised"]
                       /\ outcome' = [outcome EXCEPT ![c] = {status}]
                       /\ UNCHANGED <<slept, swallowed>>
                  ELSE /\ pc' = [pc EXCEPT ![c] = "backoff"]
                       /\ slept' = [slept EXCEPT
                              ![c] = Append(@, Backoff(retry0[c], retry[c]))]
                       /\ swallowed' = [swallowed EXCEPT ![c] = Append(@, status)]
                       /\ UNCHANGED outcome
           ELSE /\ pc' = [pc EXCEPT ![c] = "returned"]
                /\ outcome' = [outcome EXCEPT ![c] = {status}]
                /\ UNCHANGED <<slept, swallowed>>
    /\ UNCHANGED <<now, concurrency, interval, throttles, eventSet, count,
                   last_call, wake, expects, retry0, retry, attempts, passes,
                   started, waited>>

\* line 168: aiohttp.request raises an error that is no instance of throws,
\* which line 172 does not catch
RequestFails(c) ==
    /\ pc[c] = "request"
    /\ UNCHANGED notReqVars
    /\ pc' = [pc EXCEPT ![c] = "failed"]
    /\ outcome' = [outcome EXCEPT ![c] = {}]
    /\ UNCHANGED <<now, concurrency, interval, throttles, eventSet, count,
                   last_call, wake, expects, retry0, retry, attempts, slept,
                   swallowed, passes, started, waited>>

(***************************************************************************)
(* throttle                                                                *)
(***************************************************************************)

\* lines 43-44: last_call = time.time(); the wrapped function starts
Proceed(c, n, ev) ==
    /\ count' = [count EXCEPT ![c] = n]
    /\ last_call' = [last_call EXCEPT ![c] = now]
    /\ eventSet' = ev
    /\ pc' = [pc EXCEPT ![c] = IF retry0[c] >= 0 THEN "request" ELSE "returned"]
    /\ passes' = [passes EXCEPT ![c] = @ + 1]
    /\ StartRequest(c)
    /\ UNCHANGED <<wake, waited>>

\* lines 35-44, run once event.wait() has returned, with the locals count = n
\* and last_call = last
Gate(c, n, last) ==
    IF n + 1 > concurrency
      THEN IF now - last < interval
             THEN \* lines 39-40: event.clear(), then asyncio.sleep
                  /\ count' = [count EXCEPT ![c] = 0]
                  /\ last_call' = [last_call EXCEPT ![c] = last]
                  /\ eventSet' = FALSE
                  /\ wake' = [wake EXCEPT ![c] = now + (interval - (now - last))]
                  /\ pc' = [pc EXCEPT ![c] = "throttled"]
                  /\ UNCHANGED <<expects, retry0, retry, attempts, slept,
                                 swallowed, outcome, passes, started,
                                 waited>>
             ELSE Proceed(c, 0, TRUE)
      ELSE Proceed(c, n + 1, TRUE)

\* lines 27-34 (and on, when the event is set): a call enters wrapped()
Call(c) ==
    /\ pc[c] = "idle"
    /\ UNCHANGED notReqVars
    /\ IF throttles = NoEntry
         THEN \* lines 28-30
              /\ throttles' = [present |-> TRUE, count |-> 0, last_call |-> now]
              /\ Gate(c, 0, now)
         ELSE \* line 32
              /\ UNCHANGED throttles
              /\ IF eventSet
                   THEN Gate(c, throttles.count, throttles.last_call)
                   ELSE /\ count' = [count EXCEPT ![c] = throttles.count]
                        /\ last_call' = [last_call EXCEPT
                               ![c] = throttles.last_call]
                        /\ pc' = [pc EXCEPT ![c] = "gate"]
                        /\ waited' = waited \cup {c}
                        /\ UNCHANGED <<eventSet, wake, expects, retry0, retry,
                                       attempts, slept, swallowed, outcome,
                                       passes, started>>
    /\ UNCHANGED <<now, concurrency, interval>>

\* line 34: event.wait() returns, the event having been set
GateOpens(c) ==
    /\ pc[c] = "gate"
    /\ UNCHANGED notReqVars
    /\ eventSet
    /\ Gate(c, count[c], last_call[c])
    /\ UNCHANGED <<now, concurrency, interval, throttles>>

\* lines 40-44: the sleep is over; event.set()
\* (faulty variant: the event is not set again)
ThrottleWakesNoSet(c) ==
    /\ pc[c] = "throttled"
    /\ UNCHANGED notReqVars
    /\ now >= wake[c]
    /\ Proceed(c, count[c], FALSE)
    /\ UNCHANGED <<now, concurrency, interval, throttles>>
ThrottleWakes(c) ==
    /\ pc[c] = "throttled"
    /\ UNCHANGED notReqVars
    /\ now >= wake[c]
    /\ Proceed(c, count[c], TRUE)
    /\ UNCHANGED <<now, concurrency, interval, throttles>>

\* time passes
Tick ==
    /\ now < MaxTime
    /\ UNCHANGED notReqVars
    /\ now' = now + 1
    /\ UNCHANGED <<concurrency, interval, throttles, eventSet, pc, count,
                   last_call, wake, expects, retry0, retry, attempts, slept,
                   swallowed, outcome, passes, started, waited>>

InitRequest ==
    /\ now = 0
    /\ concurrency \in 0..MaxConcurrency
    /\ interval \in 1..MaxInterval
    /\ throttles = NoEntry
    /\ eventSet = FALSE
    /\ pc = [c \in Callers |-> "idle"]
    /\ count = [c \in Callers |-> 0]
    /\ last_call = [c \in Callers |-> 0]
    /\ wake = [c \in Callers |-> 0]
    \* call 1 is made with any expects and retry; the other calls are
    \* traffic on the same loop, made without expects and with retry=0
    /\ \E e \in ExpectsChoices :
         expects = [c \in Callers |-> IF c = 1 THEN e ELSE {}]
    /\ \E r \in 0..MaxRetry :
         retry0 = [c \in Callers |-> IF c = 1 THEN r ELSE 0]
    /\ retry = [c \in Callers |-> 0]
    /\ attempts = [c \in Callers |-> 0]
    /\ slept = [c \in Callers |-> <<>>]
    /\ swallowed = [c \in Callers |-> <<>>]
    /\ outcome = [c \in Callers |-> {}]
    /\ passes = [c \in Callers |-> 0]
    /\ waited = {}
    /\ started = [t \in Times |-> 0]

NextRequest ==
    \/ Tick
    \/ \E c \in Callers : Call(c)
    \/ \E c \in Callers : GateOpens(c)
    \/ \E c \in Callers : ThrottleWakes(c)
    \/ \E c \in Callers : Respond(c)
    \/ \E c \in Callers : RequestFails(c)
    \/ \E c \in Callers : NextAttempt(c)

(***************************************************************************)
(* exists and handle_name_conflict                                         *)
(*                                                                         *)
(* A name is the number of times increment_name was applied to the         *)
(* original name: 0 is "a.txt", 1 is "a (1).txt", 2 is "a (2).txt".        *)
(***************************************************************************)
Suffixes == 0..MaxSuffix

\* what self.metadata(path) does: a file's metadata, a folder's listing
\* (a non-empty list or []), or an error
FileAnswers == {"FileMetadata"}
FolderAnswers == {"List", "EmptyList"}
MetadataErrors == {"NotFoundError", "MetadataError404", "MetadataError500",
                   "ProviderError404"}
False == "False"

\* self.metadata for the name with suffix n; no name beyond MaxSuffix exists
MetadataOf(n) == IF n \in Suffixes THEN metadata[n] ELSE "NotFoundError"

\* lines 377-384: exists() returns metadata's result, False for a not-found
\* error, and lets any other error through
\* (faulty variant: every error coded 404 is swallowed)
ExistsRaisesUnless404(m) == m = "MetadataError500"
ExistsRaises(m) == m \in {"MetadataError500", "ProviderError404"}
ExistsValue(m) ==
    IF m \in {"NotFoundError", "MetadataError404"} THEN False ELSE m

\* Python's truth value of what exists() returned
Truthy(v) == v \in {"FileMetadata", "List"}

\* line 398: (not exists and not exists == [])
\* (faulty variant: [] taken for a missing path)
IsAbsentNoEmptyCheck(v) == ~Truthy(v)
IsAbsent(v) == ~Truthy(v) /\ ~(v = "EmptyList")

\* line 412: not (exists or exists == [])
\* (faulty variant: [] taken for a free name)
IsFreeNoEmptyCheck(v) == ~Truthy(v)
\* (faulty variant: the first candidate is taken unchecked)
IsFreeAlways(v) == TRUE
IsFree(v) == ~(Truthy(v) \/ v = "EmptyList")

\* line 398: the path is returned as it is when nothing is there or when
\* the policy is 'replace'
\* (faulty variant: 'replace' gets no special treatment)
ReturnsAsIsOnlyAbsent(v, cf) == IsAbsent(v)
ReturnsAsIs(v, cf) == IsAbsent(v) \/ cf = "replace"

\* WaterButlerPath.increment_name: the next name of the numbered sequence
IncrementName(p) == [p EXCEPT !.name = @ + 1]

\* lines 397-401
HandleNameConflict ==
    /\ hncPc = "called"
    /\ LET m == MetadataOf(path.name) IN
       IF ExistsRaises(m)
         THEN /\ hncPc' = "error"
              /\ hncResult' = [path |-> path, value |-> m]
              /\ UNCHANGED exists
         ELSE /\ exists' = ExistsValue(m)
              /\ IF ReturnsAsIs(ExistsValue(m), conflict)
                   THEN /\ hncPc' = "returned"
                        /\ hncResult' = [path |-> path, value |-> ExistsValue(m)]
                   ELSE IF conflict = "warn"
                          THEN /\ hncPc' = "NamingConflict"
                               /\ hncResult' = [path |-> path, value |-> False]
                          ELSE /\ hncPc' = "loop"
                               /\ UNCHANGED hncResult
    /\ UNCHANGED <<metadata, conflict, path, tried>>
    /\ UNCHANGED notHncVars

\* lines 403-415: one turn of the loop
TryNextName ==
    /\ hncPc = "loop"
    /\ LET p == IncrementName(path)
           m == MetadataOf(p.name)
       IN  /\ path' = p
           /\ tried' = Append(tried, p.name)
           /\ IF ExistsRaises(m)
                THEN /\ hncPc' = "error"
                     /\ hncResult' = [path |-> p, value |-> m]
                     /\ UNCHANGED exists
                ELSE /\ exists' = ExistsValue(m)
                     /\ IF IsFree(ExistsValue(m))
                          THEN /\ hncPc' = "returned"
                               /\ hncResult' = [path |-> p, value |-> False]
                          ELSE /\ hncPc' = "loop"
                               /\ UNCHANGED hncResult
    /\ UNCHANGED <<metadata, conflict>>
    /\ UNCHANGED notHncVars

\* a call of handle_name_conflict: any path, any policy, any backend content
InitConflict ==
    /\ \E d \in BOOLEAN :
         /\ path = [name |-> 0, is_dir |-> d]
         /\ metadata \in [Suffixes ->
                (IF d THEN FolderAnswers ELSE FileAnswers) \cup MetadataErrors]
    /\ conflict \in {"replace", "keep", "warn"}
    /\ hncPc = "called"
    /\ exists = False
    /\ tried = <<>>
    /\ hncResult = [path |-> path, value |-> False]

\* no call of handle_name_conflict is being made
NoConflictCall ==
    /\ path = [name |-> 0, is_dir |-> FALSE]
    /\ metadata = [n \in Suffixes |-> "NotFoundError"]
    /\ conflict = "replace"
    /\ hncPc = "off"
    /\ exists = False
    /\ tried = <<>>
    /\ hncResult = [path |-> path, value |-> False]

\* no make_request call is being made
NoRequestCall ==
    /\ now = 0
    /\ concurrency = 0
    /\ interval = 1
    /\ throttles = NoEntry
    /\ eventSet = FALSE
    /\ pc = [c \in Callers |-> "off"]
    /\ count = [c \in Callers |-> 0]
    /\ last_call = [c \in Callers |-> 0]
    /\ wake = [c \in Callers |-> 0]
    /\ expects = [c \in Callers |-> {}]
    /\ retry0 = [c \in Callers |-> 0]
    /\ retry = [c \in Callers |-> 0]
    /\ attempts = [c \in Callers |-> 0]
    /\ slept = [c \in Callers |-> <<>>]
    /\ swallowed = [c \in Callers |-> <<>>]
    /\ outcome = [c \in Callers |-> {}]
    /\ passes = [c \in Callers |-> 0]
    /\ waited = {}
    /\ started = [t \in Times |-> 0]

NextConflict ==
    \/ HandleNameConflict
    \/ TryNextName


(***************************************************************************)
(* move, copy and _folder_file_op                                          *)
(*                                                                         *)
(* One call of move/copy is made for each node of the source tree: the     *)
(* top-level call for the root (node 1), and the calls _folder_file_op     *)
(* schedules for the items of a folder.                                    *)
(***************************************************************************)
Nodes == 1..6
Root == 1
Name == <<"r", "f", "g", "h", "d", "k">>
ExportName == <<"r.x", "f.x", "g.x", "h.x", "d.x", "k.x">>
NoItems == [n \in Nodes |-> <<>>]

\* the source trees: a file; an empty folder; a folder of three files; a
\* folder with a file, a folder of two files, and a file
Trees ==
    { [is_dir |-> [n \in Nodes |-> FALSE], items |-> NoItems],
      [is_dir |-> [n \in Nodes |-> n = 1], items |-> NoItems],
      [is_dir |-> [n \in Nodes |-> n = 1],
       items |-> [NoItems EXCEPT ![1] = <<2, 3, 4>>]],
      [is_dir |-> [n \in Nodes |-> n \in {1, 5}],
       items |-> [NoItems EXCEPT ![1] = <<2, 5, 3>>, ![5] = <<4, 6>>]] }

ItemSet(n) == {tree.items[n][i] : i \in 1..Len(tree.items[n])}
RECURSIVE Subtree(_)
Subtree(n) == {n} \cup UNION {Subtree(c) : c \in ItemSet(n)}
Descendants(n) == Subtree(n) \ {n}
Parent(c) == CHOOSE n \in Nodes : c \in ItemSet(n)

\* paths are sequences of names
IsPrefix(p, q) == Len(p) <= Len(q) /\ SubSeq(q, 1, Len(p)) = p
Child(p, name) == Append(p, name)                       \* base.child(name)
Rename(p, name) == Append(SubSeq(p, 1, Len(p) - 1), name)   \* path.rename
Last(p) == p[Len(p)]                                    \* path.name
Put(store, p, v) ==
    [q \in DOMAIN store \cup {p} |-> IF q = p THEN v ELSE store[q]]
Remove(store, p) ==
    [q \in {x \in DOMAIN store : ~IsPrefix(p, x)} |-> store[q]]
EmptyStore == [q \in {} |-> 0]
DestRoot == <<"D">>

Min(a, b) == IF a < b THEN a ELSE b

\* line 279: items[i:i + OP_CONCURRENCY] ends before this position
\* (faulty variant: a slice one item too long)
BatchEndOneMore(len, i) == Min(i + OP_CONCURRENCY + 1, len)
BatchEnd(len, i) == Min(i + OP_CONCURRENCY, len)

\* line 277: the start of the next batch
\* (faulty variant: a step one item too long)
NextBatchSkips(i) == i + OP_CONCURRENCY + 1
NextBatch(i) == i + OP_CONCURRENCY

\* lines 208-213: move deletes the source after the transfer; copy does not
\* (faulty variant: move forgets the delete)
DeletesSourceNever(f) == FALSE
DeletesSource(f) == f = "move"

\* lines 296-299: the futures of done whose result() raises
\* (faulty variant: the errors of the done futures are dropped)
FailedIgnored(fs) == {}
Failed(fs) == {c \in fs : tpc[c] = "raised"}

Running(c) == tpc[c] \notin {"none", "done", "raised"}
FutureSet(n) == {futures[n][i] : i \in 1..Len(futures[n])}

\* when source and destination are one storage (shared), the node the call
\* for n reads is the node at this path of the storage dest describes, and
\* the source backend holds the nodes of the tree that are still there
RECURSIVE SrcPath(_)
SrcPath(n) ==
    IF n = Root THEN DestRoot ELSE Child(SrcPath(Parent(n)), Name[n])
Kind(n) == IF tree.is_dir[n] THEN "folder" ELSE "file"
SrcIn(store) ==
    {n \in Subtree(Root) : /\ SrcPath(n) \in DOMAIN store
                           /\ store[SrcPath(n)].kind = Kind(n)}
SrcAfter(store) == IF shared THEN SrcIn(store) ELSE src
DestAfterDelete(n) == IF shared THEN Remove(dest, SrcPath(n)) ELSE dest

\* lines 205, 231: self.can_intra_move / self.can_intra_copy
\* (faulty variant: the fast path is never taken)
TakesFastPathNever(c) == FALSE
TakesFastPath(c) == c \in can_intra

\* the first step of the call made for a node, its naming done (lines
\* 205-211, 231-237)
FirstStep(c) ==
    IF TakesFastPath(c) THEN "intra"
    ELSE IF tree.is_dir[c] THEN "delete_dest" ELSE "download"

\* a step of the call for n raises
Raise(n, e) ==
    /\ tpc' = [tpc EXCEPT ![n] = "raised"]
    /\ err' = [err EXCEPT ![n] = e]

\* the transfer of n is complete (lines 211-215, 235, 242, 301)
Transferred(n) ==
    tpc' = [tpc EXCEPT ![n] = IF DeletesSource(func) THEN "delete_src"
                              ELSE "done"]

\* line 263: how dest_provider.delete(dest_path) can end: the node is
\* deleted, there is none (a ProviderError coded 404), or another error
DeleteResults(n) ==
    IF dest_path[n] \in DOMAIN dest THEN {"deleted", "error"}
                                    ELSE {"404", "error"}

\* lines 265-267: the errors of the delete that are not raised again
\* (faulty variant: every error of the delete is swallowed)
SwallowedAlways(r) == r \in {"404", "error"}
Swallowed(r) == r = "404"

\* lines 262-268: dest_provider.delete(dest_path)
DestDelete(n) ==
    /\ tpc[n] = "delete_dest"
    /\ UNCHANGED notTrVars
    /\ \E r \in DeleteResults(n) :
         /\ delete_result' = [delete_result EXCEPT ![n] = r]
         /\ IF r = "deleted"
              THEN /\ dest' = Remove(dest, dest_path[n])
                   /\ created' = [created EXCEPT ![n] = FALSE]
                   /\ tpc' = [tpc EXCEPT ![n] = "create_folder"]
                   /\ UNCHANGED err
              ELSE IF Swallowed(r)
                     THEN /\ created' = [created EXCEPT ![n] = TRUE]
                          /\ tpc' = [tpc EXCEPT ![n] = "create_folder"]
                          /\ UNCHANGED <<dest, err>>
                     ELSE /\ Raise(n, [at |-> n, step |-> "delete_dest"])
                          /\ UNCHANGED <<dest, created>>
    /\ src' = SrcAfter(dest')
    /\ UNCHANGED <<trArgs, intra_calls, dest_path, stream_name, futures,
                   batch, position, children, src_deletes, items>>

\* lines 270-274: dest_provider.create_folder, revalidate_path
CreateFolder(n) ==
    /\ tpc[n] = "create_folder"
    /\ UNCHANGED notTrVars
    /\ \/ /\ Raise(n, [at |-> n, step |-> "create_folder"])
          /\ UNCHANGED dest
       \/ /\ dest' = Put(dest, dest_path[n], [kind |-> "folder", data |-> n])
          /\ tpc' = [tpc EXCEPT ![n] = "list"]
          /\ UNCHANGED err
    /\ src' = SrcAfter(dest')
    /\ UNCHANGED <<trArgs, intra_calls, dest_path, stream_name, created,
                   futures, batch, position, children, src_deletes,
                   delete_result, items>>

\* lines 275-278: items = self.metadata(src_path), the children the source
\* folder has now; the loop is entered, or there is no item and line 301
\* returns
List(n) ==
    /\ tpc[n] = "list"
    /\ UNCHANGED notTrVars
    /\ \/ /\ Raise(n, [at |-> n, step |-> "list"])
          /\ UNCHANGED items
       \/ /\ n \in src
          /\ LET listing == SelectSeq(tree.items[n], LAMBDA c : c \in src) IN
             /\ items' = [items EXCEPT ![n] = listing]
             /\ IF Len(listing) = 0
                  THEN Transferred(n)
                  ELSE tpc' = [tpc EXCEPT ![n] = "spawn"]
          /\ UNCHANGED err
    /\ UNCHANGED <<trArgs, intra_calls, src, dest, dest_path, stream_name,
                   created, futures, batch, position, children, src_deletes,
                   delete_result>>

\* lines 279-291: the next item of the batch: its call is scheduled
\* (ensure_future), and awaited at once when the item is a folder
Spawn(n) ==
    /\ tpc[n] = "spawn"
    /\ UNCHANGED notTrVars
    /\ position[n] < BatchEnd(Len(items[n]), batch[n])
    /\ LET c == items[n][position[n] + 1] IN
       /\ position' = [position EXCEPT ![n] = @ + 1]
       /\ futures' = [futures EXCEPT ![n] = Append(@, c)]
       /\ dest_path' = [dest_path EXCEPT ![c] = Child(dest_path[n], Name[c])]
       /\ tpc' = [tpc EXCEPT
              ![c] = FirstStep(c),
              ![n] = IF tree.is_dir[c] THEN "await_child"
                     ELSE IF position[n] + 1 <
                               BatchEnd(Len(items[n]), batch[n])
                            THEN "spawn" ELSE "wait"]
    /\ UNCHANGED <<trArgs, intra_calls, src, dest, stream_name, created,
                   batch, children, err, src_deletes, delete_result, items>>

\* lines 291, 296-299: the error of a child leaves _folder_file_op; the
\* futures that are not done are left as they are
\* (faulty variant: the futures that are not done are cancelled)
RaiseFromChildCancelling(n, e) ==
    /\ tpc' = [c \in Nodes |->
                 IF c = n THEN "raised"
                 ELSE IF c \in FutureSet(n) /\ Running(c) THEN "cancelled"
                 ELSE tpc[c]]
    /\ err' = [err EXCEPT ![n] = e]
RaiseFromChild(n, e) == Raise(n, e)

\* line 291: await futures[-1] returns or raises
AwaitChild(n) ==
    /\ tpc[n] = "await_child"
    /\ UNCHANGED notTrVars
    /\ LET c == futures[n][Len(futures[n])] IN
       /\ ~Running(c)
       /\ IF tpc[c] = "raised"
            THEN RaiseFromChild(n, err[c])
            ELSE /\ tpc' = [tpc EXCEPT
                        ![n] = IF position[n] <
                                    BatchEnd(Len(items[n]), batch[n])
                                 THEN "spawn" ELSE "wait"]
                 /\ UNCHANGED err
    /\ UNCHANGED <<trArgs, intra_calls, src, dest, dest_path, stream_name,
                   created, futures, batch, position, children, src_deletes,
                   delete_result, items>>

\* line 296: asyncio.wait(futures, return_when=FIRST_EXCEPTION) returns when
\* every future is done or one has raised
\* (faulty variant: it returns as soon as one future is done)
WaitReturnsFirstCompleted(n) == \E c \in FutureSet(n) : ~Running(c)
WaitReturns(n) ==
    \/ \A c \in FutureSet(n) : ~Running(c)
    \/ \E c \in FutureSet(n) : tpc[c] = "raised"

\* lines 296-301: the results of the done futures are appended, the first
\* result() that raises ends the call
WaitBatch(n) ==
    /\ tpc[n] = "wait"
    /\ UNCHANGED notTrVars
    /\ WaitReturns(n)
    /\ LET done == {c \in FutureSet(n) : ~Running(c)} IN
       IF Failed(done) # {}
         THEN /\ \E c \in Failed(done) : RaiseFromChild(n, err[c])
              /\ UNCHANGED <<futures, batch, position, children>>
         ELSE /\ children' = [children EXCEPT
                     ![n] = @ \o SelectSeq(futures[n], LAMBDA c : c \in done)]
              /\ batch' = [batch EXCEPT ![n] = NextBatch(@)]
              /\ position' = [position EXCEPT ![n] = NextBatch(batch[n])]
              /\ futures' = [futures EXCEPT ![n] = <<>>]
              /\ IF NextBatch(batch[n]) < Len(items[n])
                   THEN tpc' = [tpc EXCEPT ![n] = "spawn"]
                   ELSE Transferred(n)
              /\ UNCHANGED err
    /\ UNCHANGED <<trArgs, intra_calls, src, dest, dest_path, stream_name,
                   created, src_deletes, delete_result, items>>

\* lines 237-240: self.download(src_path); the stream may carry a name
Download(n) ==
    /\ tpc[n] = "download"
    /\ UNCHANGED notTrVars
    /\ \/ /\ Raise(n, [at |-> n, step |-> "download"])
          /\ UNCHANGED stream_name
       \/ /\ n \in src
          /\ \E name \in {"", exports[n]} :
                stream_name' = [stream_name EXCEPT ![n] = name]
          /\ tpc' = [tpc EXCEPT ![n] = "upload"]
          /\ UNCHANGED err
    /\ UNCHANGED <<trArgs, intra_calls, src, dest, dest_path, created,
                   futures, batch, position, children, src_deletes,
                   delete_result, items>>

\* lines 239-242: dest_path.rename(download_stream.name) when the stream has
\* a name, then dest_provider.upload(download_stream, dest_path)
Upload(n) ==
    /\ tpc[n] = "upload"
    /\ UNCHANGED notTrVars
    /\ \/ /\ Raise(n, [at |-> n, step |-> "upload"])
          /\ UNCHANGED <<dest, dest_path, created>>
       \/ /\ LET target == IF stream_name[n] # ""
                             THEN Rename(dest_path[n], stream_name[n])
                             ELSE dest_path[n]
             IN  /\ dest_path' = [dest_path EXCEPT ![n] = target]
                 /\ created' = [created EXCEPT
                        ![n] = target \notin DOMAIN dest]
                 /\ dest' = Put(dest, target, [kind |-> "file", data |-> n])
          /\ Transferred(n)
          /\ UNCHANGED err
    /\ src' = SrcAfter(dest')
    /\ UNCHANGED <<trArgs, intra_calls, stream_name, futures, batch,
                   position, children, src_deletes, delete_result, items>>

\* line 213: self.delete(src_path), then line 215 returns
DeleteSource(n) ==
    /\ tpc[n] = "delete_src"
    /\ UNCHANGED notTrVars
    /\ src_deletes' = src_deletes \cup {n}
    /\ \/ /\ Raise(n, [at |-> n, step |-> "delete_src"])
          /\ UNCHANGED <<src, dest>>
       \/ /\ src' = src \ Subtree(n)
          /\ dest' = DestAfterDelete(n)
          /\ tpc' = [tpc EXCEPT ![n] = "done"]
          /\ UNCHANGED err
    /\ UNCHANGED <<trArgs, intra_calls, dest_path, stream_name, created,
                   futures, batch, position, children, delete_result, items>>

\* the names below n, from n down to m
RECURSIVE RelPath(_, _)
RelPath(n, m) == IF m = n THEN <<>> ELSE Append(RelPath(n, Parent(m)), Name[m])

\* what a backend's intra_copy leaves in the destination: the source node
\* and what is below it, at dest_path, in place of what was there
CopyTree(store, n, p) ==
    LET base == Remove(store, p)
        new == Subtree(n) \cap src
        NodeAt(q) == CHOOSE m \in new : p \o RelPath(n, m) = q
    IN  [q \in DOMAIN base \cup {p \o RelPath(n, m) : m \in new} |->
            IF \E m \in new : p \o RelPath(n, m) = q
              THEN [kind |-> Kind(NodeAt(q)), data |-> NodeAt(q)]
              ELSE base[q]]

\* lines 206, 232, 363: the backend's intra_copy, called by copy or by
\* intra_move (BaseProvider's own intra_copy raises NotImplementedError)
IntraCopy(n) ==
    /\ tpc[n] = "intra"
    /\ UNCHANGED notTrVars
    /\ intra_calls' = intra_calls \cup {n}
    /\ \/ /\ Raise(n, [at |-> n, step |-> "intra_copy"])
          /\ UNCHANGED <<dest, created>>
       \/ /\ n \in src
          /\ dest' = CopyTree(dest, n, dest_path[n])
          /\ created' = [created EXCEPT ![n] = dest_path[n] \notin DOMAIN dest]
          /\ tpc' = [tpc EXCEPT ![n] = IF func = "move" THEN "intra_delete"
                                       ELSE "done"]
          /\ UNCHANGED err
    /\ src' = SrcAfter(dest')
    /\ UNCHANGED <<trArgs, dest_path, stream_name, futures, batch, position,
                   children, src_deletes, delete_result, items>>

\* lines 364-365: intra_move's self.delete(src_path)
IntraDelete(n) ==
    /\ tpc[n] = "intra_delete"
    /\ UNCHANGED notTrVars
    /\ \/ /\ Raise(n, [at |-> n, step |-> "intra_delete"])
          /\ UNCHANGED <<src, dest>>
       \/ /\ src' = src \ Subtree(n)
          /\ dest' = DestAfterDelete(n)
          /\ tpc' = [tpc EXCEPT ![n] = "done"]
          /\ UNCHANGED err
    /\ UNCHANGED <<trArgs, intra_calls, dest_path, stream_name, created,
                   futures, batch, position, children, src_deletes,
                   delete_result, items>>

\* WaterButlerPath.increment_name applied k times to a name
Numbered ==
    [r |-> <<"r (1)", "r (2)", "r (3)", "r (4)">>,
     n |-> <<"n (1)", "n (2)", "n (3)", "n (4)">>,
     t |-> <<"t (1)", "t (2)", "t (3)", "t (4)">>]
NumberedPath(p, k) ==
    IF k = 0 THEN p ELSE Rename(p, Numbered[Last(p)][k])

\* what dest_provider.metadata answers for a path of the destination
Answer(store, p) ==
    IF p \notin DOMAIN store THEN "NotFoundError"
    ELSE IF store[p].kind = "file" THEN "FileMetadata"
    ELSE IF \E q \in DOMAIN store : q # p /\ IsPrefix(p, q) THEN "List"
    ELSE "EmptyList"

\* line 328: rename or src_path.name
\* (faulty variant: rename is ignored)
NewNameIgnoresRename(r, own) == own
NewName(r, own) == IF r # "" THEN r ELSE own

\* lines 320-333: handle_naming up to its call of handle_name_conflict
HandleNaming ==
    /\ tpc[Root] = "handle_naming"
    /\ UNCHANGED reqVars
    /\ IF tree.is_dir[Root] /\ dest_is_file
         THEN /\ Raise(Root, [at |-> Root, step |-> "handle_naming"])
              /\ UNCHANGED <<dest_path, path, hncPc, hncResult, metadata>>
         ELSE LET p == IF ~dest_is_file
                         THEN Child(dest_path[Root],
                                    NewName(rename, Name[Root]))
                         ELSE dest_path[Root]
                  d == IF ~dest_is_file THEN tree.is_dir[Root] ELSE FALSE
              IN  /\ dest_path' = [dest_path EXCEPT ![Root] = p]
                  /\ path' = [name |-> 0, is_dir |-> d]
                  /\ metadata' = [k \in Suffixes |->
                                     Answer(dest, NumberedPath(p, k))]
                  /\ hncPc' = "called"
                  /\ hncResult' = [path |-> path', value |-> False]
                  /\ tpc' = [tpc EXCEPT ![Root] = "name_conflict"]
                  /\ UNCHANGED err
    /\ UNCHANGED <<conflict, exists, tried>>
    /\ UNCHANGED <<trArgs, intra_calls, src, dest, stream_name, created,
                   futures, batch, position, children, src_deletes,
                   delete_result, items>>

\* lines 333-335 and 196-203, 222-229: handle_name_conflict has returned the
\* path move/copy goes on with, or raised
NamingReturns ==
    /\ tpc[Root] = "name_conflict"
    /\ hncPc \in {"returned", "NamingConflict", "error"}
    /\ UNCHANGED notTrVars
    /\ IF hncPc = "returned"
         THEN /\ dest_path' = [dest_path EXCEPT
                     ![Root] = NumberedPath(@, hncResult.path.name)]
              /\ tpc' = [tpc EXCEPT ![Root] = FirstStep(Root)]
              /\ UNCHANGED err
         ELSE /\ Raise(Root, [at |-> Root, step |-> "handle_name_conflict"])
              /\ UNCHANGED dest_path
    /\ UNCHANGED <<trArgs, intra_calls, src, dest, stream_name, created,
                   futures, batch, position, children, src_deletes,
                   delete_result, items>>

\* what the destination holds before the call: nothing, or a node at
\* dest_path (with a child of its own when it is a folder)
OldNode(k) == [kind |-> k, data |-> 0]
InitialDests(d) ==
    { EmptyStore,
      IF d THEN Put(Put(EmptyStore, DestRoot, OldNode("folder")),
                    Child(DestRoot, "old"), OldNode("file"))
           ELSE Put(EmptyStore, DestRoot, OldNode("file")) }

NoError == [at |-> 0, step |-> ""]

\* the locals of the calls, none of them started but the top-level one
InitLocals(first) ==
    /\ tpc = [n \in Nodes |-> IF n = Root THEN first ELSE "none"]
    /\ stream_name = [n \in Nodes |-> ""]
    /\ created = [n \in Nodes |-> FALSE]
    /\ futures = [n \in Nodes |-> <<>>]
    /\ batch = [n \in Nodes |-> 0]
    /\ position = [n \in Nodes |-> 0]
    /\ children = [n \in Nodes |-> <<>>]
    /\ err = [n \in Nodes |-> NoError]
    /\ src_deletes = {}
    /\ delete_result = [n \in Nodes |-> ""]
    /\ items = [n \in Nodes |-> <<>>]
    /\ intra_calls = {}

\* a generic move or copy between two backends, its naming done
InitTransfer ==
    /\ tree \in Trees
    /\ func \in {"move", "copy"}
    /\ rename = ""
    /\ dest_is_file = FALSE
    /\ shared = FALSE
    /\ can_intra = {}
    /\ dest_can_intra = FALSE
    /\ exports = ExportName
    /\ src = Subtree(Root)
    /\ dest \in InitialDests(tree.is_dir[Root])
    /\ dest_path = [n \in Nodes |-> DestRoot]
    /\ InitLocals(FirstStep(Root))

\* no move or copy is being made
NoTransferCall ==
    /\ tree = [is_dir |-> [n \in Nodes |-> FALSE], items |-> NoItems]
    /\ func = "copy"
    /\ rename = ""
    /\ dest_is_file = FALSE
    /\ shared = FALSE
    /\ can_intra = {}
    /\ dest_can_intra = FALSE
    /\ exports = ExportName
    /\ src = {}
    /\ dest = EmptyStore
    /\ dest_path = [n \in Nodes |-> DestRoot]
    /\ InitLocals("none")

NextTransfer ==
    \/ \E n \in Nodes : DestDelete(n)
    \/ \E n \in Nodes : CreateFolder(n)
    \/ \E n \in Nodes : List(n)
    \/ \E n \in Nodes : Spawn(n)
    \/ \E n \in Nodes : AwaitChild(n)
    \/ \E n \in Nodes : WaitBatch(n)
    \/ \E n \in Nodes : Download(n)
    \/ \E n \in Nodes : Upload(n)
    \/ \E n \in Nodes : DeleteSource(n)

\* the storage behind both backends when they are one: the source tree
SharedStore ==
    [p \in {SrcPath(n) : n \in Subtree(Root)} |->
        LET n == CHOOSE m \in Subtree(Root) : SrcPath(m) = p
        IN  [kind |-> Kind(n), data |-> n]]

\* the names the download streams may carry: names of their own, or the
\* stream of f named as its sibling g is
ExportChoices == {ExportName, [ExportName EXCEPT ![2] = Name[3]]}

\* the answers self.can_intra_move / can_intra_copy may give: never, for
\* the top-level source, for a folder below it
CanIntraChoices == {{}, {Root}, {5}}

\* any move or copy, its naming done: with or without a fast path, onto
\* another backend or onto the source itself
InitAnyTransfer ==
    /\ tree \in Trees
    /\ func \in {"move", "copy"}
    /\ rename = ""
    /\ dest_is_file = FALSE
    /\ shared \in BOOLEAN
    /\ can_intra \in (IF shared THEN {{}} ELSE CanIntraChoices)
    /\ dest_can_intra \in (IF shared THEN {FALSE} ELSE BOOLEAN)
    /\ exports \in (IF shared THEN {ExportName} ELSE ExportChoices)
    /\ src = Subtree(Root)
    /\ dest \in (IF shared THEN {SharedStore}
                 ELSE InitialDests(tree.is_dir[Root]))
    /\ dest_path = [n \in Nodes |-> DestRoot]
    /\ InitLocals(FirstStep(Root))

NextAnyTransfer ==
    \/ \E n \in Nodes : DestDelete(n)
    \/ \E n \in Nodes : CreateFolder(n)
    \/ \E n \in Nodes : List(n)
    \/ \E n \in Nodes : Spawn(n)
    \/ \E n \in Nodes : AwaitChild(n)
    \/ \E n \in Nodes : WaitBatch(n)
    \/ \E n \in Nodes : Download(n)
    \/ \E n \in Nodes : Upload(n)
    \/ \E n \in Nodes : DeleteSource(n)
    \/ \E n \in Nodes : IntraCopy(n)
    \/ \E n \in Nodes : IntraDelete(n)

\* the source trees of the calls that do their own naming: a file; a folder
\* with a file and an empty folder
NamingTrees ==
    { [is_dir |-> [n \in Nodes |-> FALSE], items |-> NoItems],
      [is_dir |-> [n \in Nodes |-> n \in {1, 5}],
       items |-> [NoItems EXCEPT ![1] = <<2, 5>>]] }

\* the dest_path argument: a folder, or a file path in it
DestArg(is_file) == IF is_file THEN Child(DestRoot, "t") ELSE DestRoot

\* the destination folder before the call: of every name a call may ask
\* for, the ones numbered in S are taken
NamedDest(S, kind) ==
    LET taken == {NumberedPath(Child(DestRoot, b), k) :
                      b \in {"r", "n", "t"}, k \in S}
    IN  [q \in {DestRoot} \cup taken |->
            IF q = DestRoot THEN OldNode("folder") ELSE OldNode(kind)]

\* a move or copy with handle_naming=True between two backends
InitNaming ==
    /\ tree \in NamingTrees
    /\ func \in {"move", "copy"}
    /\ rename \in {"", "n"}
    /\ dest_is_file \in BOOLEAN
    /\ shared = FALSE
    /\ can_intra = {}
    /\ dest_can_intra = FALSE
    /\ exports = ExportName
    /\ src = Subtree(Root)
    /\ \E S \in SUBSET Suffixes : dest = NamedDest(S, Kind(Root))
    /\ dest_path = [n \in Nodes |-> IF n = Root THEN DestArg(dest_is_file)
                                    ELSE DestRoot]
    /\ InitLocals("handle_naming")
    /\ conflict \in {"replace", "keep", "warn"}
    /\ path = [name |-> 0, is_dir |-> FALSE]
    /\ metadata = [n \in Suffixes |-> "NotFoundError"]
    /\ hncPc = "off"
    /\ exists = False
    /\ tried = <<>>
    /\ hncResult = [path |-> path, value |-> False]

NextNaming ==
    \/ HandleNaming
    \/ HandleNameConflict
    \/ TryNextName
    \/ NamingReturns
    \/ \E n \in Nodes : DestDelete(n)
    \/ \E n \in Nodes : CreateFolder(n)
    \/ \E n \in Nodes : List(n)
    \/ \E n \in Nodes : Spawn(n)
    \/ \E n \in Nodes : AwaitChild(n)
    \/ \E n \in Nodes : WaitBatch(n)
    \/ \E n \in Nodes : Download(n)
    \/ \E n \in Nodes : Upload(n)
    \/ \E n \in Nodes : DeleteSource(n)

\* a generic move or copy alone
InitSpecTransfer == NoRequestCall /\ NoConflictCall /\ InitTransfer
SpecTransfer == InitSpecTransfer /\ [][NextTransfer]_vars

\* any move or copy
InitSpecAnyTransfer == NoRequestCall /\ NoConflictCall /\ InitAnyTransfer
SpecAnyTransfer == InitSpecAnyTransfer /\ [][NextAnyTransfer]_vars

\* a move or copy that resolves its destination itself
InitSpecNaming == NoRequestCall /\ InitNaming
SpecNaming == InitSpecNaming /\ [][NextNaming]_vars

\* handle_name_conflict alone
InitSpecConflict == NoRequestCall /\ NoTransferCall /\ InitConflict
SpecConflict == InitSpecConflict /\ [][NextConflict]_vars

\* make_request calls through the throttle alone
InitSpecRequest == NoConflictCall /\ NoTransferCall /\ InitRequest
SpecRequest == InitSpecRequest /\ [][NextRequest]_vars

\* line 27: a call enters wrapped() while the clock of the model (0..MaxTime)
\* still holds the end of a sleep that starts now
CallInTime(c) ==
    /\ now + interval <= MaxTime
    /\ Call(c)

NextThrottle ==
    \/ Tick
    \/ \E c \in Callers : CallInTime(c)
    \/ \E c \in Callers : GateOpens(c)
    \/ \E c \in Callers : ThrottleWakes(c)
    \/ \E c \in Callers : Respond(c)
    \/ \E c \in Callers : RequestFails(c)
    \/ \E c \in Callers : NextAttempt(c)

\* time passes, and the event loop resumes a coroutine whose asyncio.sleep
\* is over (line 40) or whose event.wait() can return (line 34)
ThrottleFairness ==
    /\ WF_vars(Tick)
    /\ \A c \in Callers : WF_vars(GateOpens(c))
    /\ \A c \in Callers : WF_vars(ThrottleWakes(c))

\* calls through the throttle on a loop that keeps running; a retry does
\* not enter wrapped() again, so call 1 is given one retry at most
InitSpecThrottle ==
    /\ InitSpecRequest
    /\ retry0[1] <= 1
SpecThrottle ==
    InitSpecThrottle /\ [][NextThrottle]_vars /\ ThrottleFairness

(***************************************************************************)
(* Claims about make_request and the throttle (checked under SpecRequest)  *)
(***************************************************************************)
Finished(c) == pc[c] \in {"returned", "raised", "failed"}

RECURSIVE SumStarted(_)
SumStarted(ts) ==
    IF ts = {} THEN 0
    ELSE LET t == CHOOSE x \in ts : TRUE
         IN  started[t] + SumStarted(ts \ {t})

\* C1: a call made with expects whose target answered k <= retry times with
\* an unexpected status of retry_on and then with an expected status has
\* returned that response after exactly k+1 attempts, and the i-th retry was
\* preceded by a sleep of 2*i seconds.
C1_RetryThenSuccess ==
    \A c \in Callers :
        ( /\ Finished(c)
          /\ expects[c] # {}
          /\ outcome[c] # {}
          /\ outcome[c] \subseteq expects[c]
          /\ Len(swallowed[c]) <= retry0[c]
          /\ \A i \in 1..Len(swallowed[c]) : swallowed[c][i] \in retry_on )
        => /\ pc[c] = "returned"
           /\ attempts[c] = Len(swallowed[c]) + 1
           /\ slept[c] = [i \in 1..(attempts[c] - 1) |-> 2 * i]

C1_Witness ==
    /\ pc[1] = "returned"
    /\ expects[1] = {200}
    /\ outcome[1] = {200}
    /\ swallowed[1] = <<503, 503>>
    /\ attempts[1] = 3
    /\ slept[1] = <<2, 4>>

\* C2: an error is swallowed only when its code is in retry_on and retries
\* remain (so the loop never runs out and returns nothing); an error whose
\* code is not in retry_on is propagated by the attempt that met it, with no
\* further attempt and no sleep (one attempt, no sleep, when it is the first
\* answer); when every attempt fails with a code of retry_on the error is
\* propagated after exactly retry+1 attempts; no sleep follows the last
\* attempt.
C2_SwallowOnlyRetryable ==
    \A c \in Callers :
        /\ Len(swallowed[c]) <= retry0[c]
        /\ \A i \in 1..Len(swallowed[c]) : swallowed[c][i] \in retry_on
        /\ pc[c] = "returned" => outcome[c] # {}
        /\ pc[c] \in {"raised", "failed"} =>
               /\ attempts[c] = Len(swallowed[c]) + 1
               /\ Len(slept[c]) = attempts[c] - 1
        /\ (pc[c] = "raised" /\ outcome[c] \cap retry_on = {}) =>
               (swallowed[c] = <<>> => attempts[c] = 1 /\ slept[c] = <<>>)
        /\ (pc[c] = "raised" /\ outcome[c] \cap retry_on # {}) =>
               /\ attempts[c] = retry0[c] + 1
               /\ Len(slept[c]) = retry0[c]

C2_Witness ==
    /\ pc[1] = "raised" /\ outcome[1] = {503}
    /\ retry0[1] = 2 /\ attempts[1] = 3 /\ slept[1] = <<2, 4>>
    /\ pc[2] = "idle"

\* C3 (as claimed): with concurrency c >= 1 and interval t, at most c wrapped
\* calls start in any window of t seconds.
C3_AtMostConcurrencyPerInterval ==
    concurrency >= 1 =>
        \A w \in Times :
            SumStarted({t \in Times : w <= t /\ t < w + interval})
                <= concurrency

\* C4 (as claimed): a call that has made n attempts went through the limiter
\* n times.
C4_EveryAttemptLimited ==
    \A c \in Callers : passes[c] = attempts[c]

\* C4 (amended): a make_request call goes through the limiter exactly once,
\* before its first attempt; its retry attempts are made inside make_request
\* and do not go through the limiter again.
C4_LimitedOncePerCall ==
    \A c \in Callers :
        /\ pc[c] \in {"idle", "gate", "throttled"} =>
               passes[c] = 0 /\ attempts[c] = 0
        /\ attempts[c] >= 1 => passes[c] = 1

C4_Witness ==
    /\ attempts[1] = 3
    /\ passes[1] = 1
    /\ pc[1] = "request"


(***************************************************************************)
(* Claims about handle_name_conflict (checked under SpecConflict)          *)
(***************************************************************************)
\* the backend has a node of that name: metadata answers (an empty folder
\* answers with the empty list)
NodeExists(n) == MetadataOf(n) \in FileAnswers \cup FolderAnswers
\* the backend has no node of that name
NodeMissing(n) == MetadataOf(n) \in {"NotFoundError", "MetadataError404"}

\* C9: for an existing path, conflict = "keep" returns a path whose name is
\* not the input's, the candidates tried are the increment_name sequence
\* (each one new), every candidate before the returned one exists and the
\* returned one, the last tried, does not.
C9_KeepReturnsFirstFreeName ==
    (conflict = "keep" /\ NodeExists(0)) =>
        /\ \A i \in 1..Len(tried) : tried[i] = i
        /\ hncPc = "loop" => \A i \in 1..Len(tried) : NodeExists(tried[i])
        /\ hncPc = "returned" =>
              /\ Len(tried) >= 1
              /\ hncResult.path.name = tried[Len(tried)]
              /\ hncResult.path.name # 0
              /\ \A i \in 1..(Len(tried) - 1) :
                     /\ NodeExists(tried[i])
                     /\ tried[i] # hncResult.path.name
              /\ NodeMissing(hncResult.path.name)
              /\ hncResult.value = False

C9_Witness ==
    /\ conflict = "keep"
    /\ path.is_dir
    /\ metadata[0] = "EmptyList"
    /\ metadata[1] = "EmptyList"
    /\ metadata[2] = "NotFoundError"
    /\ hncPc = "returned"
    /\ tried = <<1, 2>>
    /\ hncResult.path.name = 2

\* C10: once the existence check has answered, the call has failed with
\* NamingConflict exactly when the policy is "warn" and the path exists (an
\* empty folder exists), and the error carries the input path.
C10_WarnRaisesIffExists ==
    hncPc \notin {"off", "called"} =>
        /\ hncPc = "NamingConflict" <=> (conflict = "warn" /\ NodeExists(0))
        /\ hncPc = "NamingConflict" =>
               hncResult.path = [name |-> 0, is_dir |-> path.is_dir]

C10_Witness ==
    /\ conflict = "warn"
    /\ metadata[0] = "EmptyList"
    /\ hncPc = "NamingConflict"
    /\ hncResult.path.name = 0

\* C11: with conflict = "replace" no other name is ever tried and no
\* NamingConflict is raised; the call returns the input path (same name,
\* same kind) and, with it, what the existence check answered for that path.
C11_ReplaceReturnsPathUnchanged ==
    conflict = "replace" =>
        /\ hncPc \notin {"loop", "NamingConflict"}
        /\ tried = <<>>
        /\ path.name = 0
        /\ hncPc = "returned" =>
              /\ hncResult.path = [name |-> 0, is_dir |-> path.is_dir]
              /\ hncResult.value = ExistsValue(MetadataOf(0))

C11_Witness ==
    /\ conflict = "replace"
    /\ metadata[0] = "FileMetadata"
    /\ hncPc = "returned"
    /\ hncResult.path.name = 0
    /\ hncResult.value = "FileMetadata"

\* C15: the existence check of the last name looked at either gave back what
\* metadata answered, or False when metadata raised NotFoundError or a
\* MetadataError with code 404, or let metadata's error through as it was.
C15_ExistsSwallowsOnlyNotFound ==
    hncPc \notin {"off", "called"} =>
        LET m == MetadataOf(path.name) IN
        /\ m \in FileAnswers \cup FolderAnswers =>
               hncPc # "error" /\ exists = m
        /\ m \in {"NotFoundError", "MetadataError404"} =>
               hncPc # "error" /\ exists = False
        /\ m \in {"MetadataError500", "ProviderError404"} =>
               hncPc = "error" /\ hncResult.value = m

C15_Witness ==
    /\ hncPc = "error"
    /\ metadata[0] = "EmptyList"
    /\ metadata[1] = "List"
    /\ metadata[2] = "ProviderError404"
    /\ tried = <<1, 2>>
    /\ hncResult.value = "ProviderError404"


(***************************************************************************)
(* Claims about move, copy and _folder_file_op (checked under SpecTransfer)*)
(***************************************************************************)
IsFile(n) == ~tree.is_dir[n]
Position(n, c) == CHOOSE i \in 1..Len(tree.items[n]) : tree.items[n][i] = c
\* the batch of n's loop that item c belongs to
BatchOf(n, c) == (Position(n, c) - 1) \div OP_CONCURRENCY

\* the name a node gets in the destination: the download stream's name when
\* it has one
NameInDest(n) == IF stream_name[n] # "" THEN stream_name[n] ELSE Name[n]
RECURSIVE PathInDest(_)
PathInDest(n) ==
    IF n = Root
      THEN IF stream_name[n] # "" THEN Rename(DestRoot, stream_name[n])
           ELSE DestRoot
      ELSE Child(PathInDest(Parent(n)), NameInDest(n))

\* what a copy of the source tree puts in the destination
CopyResult ==
    [q \in {PathInDest(n) : n \in Subtree(Root)} |->
        LET n == CHOOSE x \in Subtree(Root) : PathInDest(x) = q
        IN  [kind |-> IF IsFile(n) THEN "file" ELSE "folder", data |-> n]]

DestIsCopyResult ==
    /\ \A q \in DOMAIN CopyResult : q \in DOMAIN dest /\ dest[q] = CopyResult[q]
    /\ \A q \in DOMAIN dest \ DOMAIN CopyResult :
           \* only the old file beside a file uploaded under its stream's name
           IsFile(Root) /\ stream_name[Root] # "" /\ q = DestRoot

FilesInFlight == {c \in Nodes \ {Root} : IsFile(c) /\ Running(c)}

\* C6 (as claimed): the file-child operations in flight, those of nested
\* folder operations included, never number more than OP_CONCURRENCY.
C6_InFlightBoundedOverall ==
    Cardinality(FilesInFlight) <= OP_CONCURRENCY

\* C6 (amended): the file-child operations one _folder_file_op call has
\* started and that are in flight never number more than OP_CONCURRENCY.
C6_InFlightBoundedPerFolder ==
    \A n \in Nodes :
        Cardinality(FilesInFlight \cap ItemSet(n)) <= OP_CONCURRENCY

C6_Witness ==
    /\ tree.items[Root] = <<2, 5, 3>>
    /\ FilesInFlight = {2, 4, 6}
    /\ tpc[5] = "wait"
    /\ tpc[Root] = "await_child"

\* C7: once a child operation of a folder operation has raised, that folder
\* operation and the top-level call never succeed, no child of a later batch
\* is started, and when the call of the folder has ended it has raised the
\* error of a child that raised; when nothing runs any more the top-level
\* call has raised.
C7_ChildErrorSurfaces ==
    \A n \in Nodes : \A c \in ItemSet(n) :
        tpc[c] = "raised" =>
            /\ tpc[n] \notin {"done", "delete_src"}
            /\ tpc[Root] \notin {"done", "delete_src"}
            /\ \A x \in ItemSet(n) :
                   BatchOf(n, x) > BatchOf(n, c) => tpc[x] = "none"
            /\ tpc[n] = "raised" =>
                   \E x \in ItemSet(n) : tpc[x] = "raised" /\ err[n] = err[x]
            /\ (\A x \in Nodes : ~Running(x)) => tpc[Root] = "raised"

C7_Witness ==
    /\ tree.items[Root] = <<2, 3, 4>>
    /\ tpc[2] = "raised"
    /\ tpc[3] = "upload"
    /\ tpc[4] = "none"
    /\ tpc[Root] = "raised"
    /\ err[Root] = [at |-> 2, step |-> "download"]

\* the metadata nodes below a folder's metadata
RECURSIVE MetaCount(_)
SumMetaCount[cs \in Seq(Nodes)] ==
    IF cs = <<>> THEN 0 ELSE 1 + MetaCount(Head(cs)) + SumMetaCount[Tail(cs)]
MetaCount(n) == SumMetaCount[children[n]]

\* folder.children holds each item of the folder exactly once
HoldsEachItemOnce(n) ==
    /\ Len(children[n]) = Len(tree.items[n])
    /\ \A c \in ItemSet(n) : \E i \in 1..Len(children[n]) : children[n][i] = c

CopiedFolder ==
    func = "copy" /\ tree.is_dir[Root] /\ tpc[Root] = "done"

\* C8 (as claimed): the metadata of a copied folder has as many nodes below
\* the root as the source has descendants, each source child once, each named
\* as its source counterpart.
C8_MetadataMirrorsSourceNames ==
    CopiedFolder =>
        /\ MetaCount(Root) = Cardinality(Descendants(Root))
        /\ \A n \in Subtree(Root) : tree.is_dir[n] => HoldsEachItemOnce(n)
        /\ \A c \in Descendants(Root) : Last(dest_path[c]) = Name[c]

\* C8 (amended): as claimed, but a file whose download stream carries a name
\* is named after the stream instead of its source counterpart.
C8_MetadataMirrorsSource ==
    CopiedFolder =>
        /\ MetaCount(Root) = Cardinality(Descendants(Root))
        /\ \A n \in Subtree(Root) : tree.is_dir[n] => HoldsEachItemOnce(n)
        /\ \A c \in Descendants(Root) : Last(dest_path[c]) = NameInDest(c)
        /\ \A c \in Descendants(Root) :
               stream_name[c] # "" => IsFile(c)

C8_Witness ==
    /\ CopiedFolder
    /\ tree.items[Root] = <<2, 5, 3>>
    /\ MetaCount(Root) = 5
    /\ stream_name[2] = "f.x"
    /\ Last(dest_path[2]) = "f.x"
    /\ Last(dest_path[4]) = "h"


\* the folder the call for n creates is in the destination
FolderCreated(n) ==
    /\ dest_path[n] \in DOMAIN dest
    /\ dest[dest_path[n]] = [kind |-> "folder", data |-> n]
NoChildStarted(n) ==
    /\ futures[n] = <<>>
    /\ items[n] = <<>>
    /\ \A c \in ItemSet(n) : tpc[c] = "none"

\* C14: _folder_file_op starts with dest_provider.delete(dest_path): until it
\* has answered no folder is created and no child is started; a 404 makes
\* created true, a successful delete makes it false, any other error is
\* raised with no folder created and no child started; created keeps that
\* value to the end of the call.
C14_CreatedFromDestDelete ==
    \A n \in Nodes : (tree.is_dir[n] /\ tpc[n] # "none") =>
        /\ tpc[n] = "delete_dest" =>
               delete_result[n] = "" /\ NoChildStarted(n) /\ ~FolderCreated(n)
        /\ tpc[n] # "delete_dest" =>
               delete_result[n] \in {"deleted", "404", "error"}
        /\ delete_result[n] \in {"404", "deleted"} =>
               /\ created[n] = (delete_result[n] = "404")
               /\ err[n] # [at |-> n, step |-> "delete_dest"]
        /\ delete_result[n] = "error" =>
               /\ tpc[n] = "raised"
               /\ err[n] = [at |-> n, step |-> "delete_dest"]
               /\ NoChildStarted(n)
               /\ ~FolderCreated(n)

C14_Witness ==
    /\ tree.items[Root] = <<2, 5, 3>>
    /\ tpc[Root] = "done"
    /\ delete_result[Root] = "deleted"
    /\ ~created[Root]
    /\ delete_result[5] = "404"
    /\ created[5]

\* a file child's own next step
FileStep(c) == Download(c) \/ Upload(c) \/ DeleteSource(c)
\* the node the call for c put in the destination is there
InDest(c) ==
    /\ dest_path[c] \in DOMAIN dest
    /\ dest[dest_path[c]] = [kind |-> Kind(c), data |-> c]
ChildFailed(n) == tree.is_dir[n] /\ tpc[n] = "raised" /\ err[n].at # n

\* C18: after _folder_file_op has raised the error of a child, the children
\* of its earlier batches and the finished ones of the failing batch are
\* still in the destination, and each file child still in flight can take
\* its next step (download, upload, delete of its source).
C18_NoUndoNoCancel ==
    \A n \in Nodes : ChildFailed(n) =>
        /\ \A i \in 1..Len(children[n]) : InDest(children[n][i])
        /\ \A c \in FutureSet(n) :
              /\ tpc[c] \in {"delete_src", "done"} => InDest(c)
              /\ (IsFile(c) /\ Running(c)) => ENABLED FileStep(c)

C18_Witness ==
    /\ func = "move"
    /\ tree.items[Root] = <<2, 3, 4>>
    /\ tpc[Root] = "raised"
    /\ err[Root] = [at |-> 2, step |-> "download"]
    /\ tpc[3] = "delete_src"
    /\ InDest(3)
    /\ 3 \in src
    /\ ENABLED DeleteSource(3)

Started(c) == tpc[c] # "none"

\* C20: of the children one _folder_file_op has started, at most
\* OP_CONCURRENCY are unfinished; when a child is started, every folder
\* before it in the listing and every child of an earlier batch has finished.
C20_BatchByBatch ==
    \A n \in Nodes : tree.is_dir[n] =>
        /\ Cardinality({c \in ItemSet(n) : Running(c)}) <= OP_CONCURRENCY
        /\ \A c, x \in ItemSet(n) :
              (Position(n, c) < Position(n, x) /\ Started(x)) =>
                  /\ tree.is_dir[c] => tpc[c] = "done"
                  /\ BatchOf(n, c) < BatchOf(n, x) => tpc[c] = "done"

C20_Witness ==
    /\ tree.items[Root] = <<2, 5, 3>>
    /\ tpc[5] = "done"
    /\ tpc[2] = "done"
    /\ tpc[3] = "upload"
    /\ tpc[Root] = "wait"


(***************************************************************************)
(* Claims about the fast path and the source (checked under                *)
(* SpecAnyTransfer)                                                        *)
(***************************************************************************)
\* the call for n went to intra_move / intra_copy and did nothing else
FastOnly(n) ==
    /\ tpc[n] \in {"intra", "intra_delete", "done", "raised"}
    /\ tpc[n] # "intra" => n \in intra_calls
    /\ tpc[n] = "raised" => err[n].step \in {"intra_copy", "intra_delete"}
    /\ stream_name[n] = ""
    /\ delete_result[n] = ""
    /\ n \notin src_deletes
    /\ \A c \in Descendants(n) : tpc[c] = "none"
\* the call for n runs the generic algorithm
GenericOnly(n) ==
    /\ tpc[n] \notin {"intra", "intra_delete"}
    /\ n \notin intra_calls
    /\ (tpc[n] = "raised" /\ err[n].at = n) =>
           err[n].step \notin {"intra_copy", "intra_delete"}

C13_CopyKeepsSource ==
    (func = "copy" /\ tpc[Root] \in {"done", "raised"}) => src = Subtree(Root)

\* the upload of the call for file n succeeded
Uploaded(n) ==
    \/ tpc[n] \in {"delete_src", "done"}
    \/ tpc[n] = "raised" /\ err[n] = [at |-> n, step |-> "delete_src"]

\* C19: in a move that takes no fast path, onto a destination apart from
\* the source, every file of the source tree is still in the source or is
\* in the destination at the path its call uploaded it to; the delete of a
\* source node was issued only after its upload succeeded or, for a folder,
\* after the moves of all its children ended well.
C19_MoveLosesNoFile ==
    (func = "move" /\ ~shared /\ can_intra = {}) =>
        /\ \A f \in Subtree(Root) : IsFile(f) => (f \in src \/ InDest(f))
        /\ \A n \in src_deletes :
              IF IsFile(n) THEN Uploaded(n)
              ELSE /\ Len(children[n]) = Len(tree.items[n])
                   /\ \A c \in ItemSet(n) : tpc[c] = "done" /\ c \notin src


(***************************************************************************)
(* Claims about handle_naming (checked under SpecNaming)                   *)
(***************************************************************************)
\* the first name after the target's that was free when the call was made
FirstFree ==
    CHOOSE j \in 1..(MaxSuffix + 1) :
        /\ ~NodeExists(j)
        /\ \A i \in 0..(j - 1) : NodeExists(i)
\* the child of the destination folder the copy is aimed at
Target == Child(DestRoot, IF rename # "" THEN rename ELSE Name[Root])
\* the nodes that were in the destination before the call are as they were
OldNodesKept ==
    \A k \in Suffixes :
        NodeExists(k) =>
            /\ NumberedPath(Target, k) \in DOMAIN dest
            /\ dest[NumberedPath(Target, k)] = OldNode("file")
KeepCopyOntoTaken ==
    /\ func = "copy"
    /\ IsFile(Root)
    /\ ~dest_is_file
    /\ conflict = "keep"
    /\ tpc[Root] = "done"
    /\ NodeExists(0)
UploadedToFirstFree ==
    /\ dest_path[Root] = NumberedPath(Target, FirstFree)
    /\ dest[dest_path[Root]] = [kind |-> "file", data |-> Root]
    /\ created[Root]
    /\ OldNodesKept

\* C16: a finished generic copy of a file onto a folder with conflict =
\* "keep", the target name and its first k incremented names taken, has
\* uploaded the file to the (k+1)-th incremented name, has left the nodes
\* that were there as they were, and returns created = true.
C16_KeepUploadsToFirstFreeName ==
    KeepCopyOntoTaken => UploadedToFirstFree

\* C16, the stream's name taken into account: the same holds when the
\* download stream carries no name; when it carries one the file is in the
\* destination folder under the stream's name.
C16_KeepUploadsToFirstFreeNameOrStreamName ==
    KeepCopyOntoTaken =>
        IF stream_name[Root] = "" THEN UploadedToFirstFree
        ELSE /\ dest_path[Root] = Child(DestRoot, stream_name[Root])
             /\ dest[dest_path[Root]] = [kind |-> "file", data |-> Root]

C16_Witness ==
    /\ KeepCopyOntoTaken
    /\ rename = ""
    /\ stream_name[Root] = ""
    /\ NodeExists(1)
    /\ ~NodeExists(2)
    /\ dest_path[Root] = <<"D", "r (2)">>
    /\ created[Root]
    /\ dest[<<"D", "r">>] = OldNode("file")
    /\ dest[<<"D", "r (1)">>] = OldNode("file")

Entered(c) == pc[c] # "idle"
\* the event is cleared only while a call is in the sleep of line 40
GateClosedOnlyWhileSleeping ==
    (throttles.present /\ ~eventSet) => \E c \in Callers : pc[c] = "throttled"

\* C21: the event is cleared only while some call sleeps in the throttle,
\* and every call that has entered wrapped() eventually gets through it and
\* starts the wrapped function.
C21_EveryCallStarts ==
    /\ []GateClosedOnlyWhileSleeping
    /\ \A c \in Callers : Entered(c) ~> (passes[c] = 1)

C21_Witness ==
    /\ concurrency = 0
    /\ waited = {2}
    /\ passes[2] = 1
    /\ passes[1] = 1
    /\ wake[1] > 0
    /\ eventSet

=============================================================================
